---- MODULE Spec2Model ----
(***************************************************************************)
(* fastf1_utils: the derived per-lap views of new_utils.py and the chart   *)
(* renderers of standard_plots.py, as operations on a session's lap table  *)
(* and weather table.                                                      *)
(*                                                                         *)
(* A table is a sequence of records, one per row, in the table's row       *)
(* order.  The row's index label is its position (session.laps carries a   *)
(* RangeIndex; the model counts it from 1).  A time value is a record      *)
(* [na, v]: na = TRUE is pandas' NaT (no value recorded), otherwise v is   *)
(* the duration or timestamp in whole seconds.  A missing object value     *)
(* (a Compound that was never reported) is the string "None".              *)
(***************************************************************************)
EXTENDS Integers, Sequences, FiniteSets, TLC

VARIABLES
    laps,         \* session.laps: the lap table, in row order
    weather,      \* session.weather_data: the weather samples, in row order
    call,         \* the call last made: its name and arguments
    ret,          \* what that call returned, or that it raised
    leader_laps,  \* the call's local leader_laps, when it built one
    figs,         \* the figures the call created with plt.subplots
    ax,           \* the artists the call drew on its axes, in drawing order
    out           \* the lines the call printed

vars == <<laps, weather, call, ret, leader_laps, figs, ax, out>>

----------------------------------------------------------------------------
(* Bounds of the model. *)

\* Lap numbers run from 1 to MaxLaps.
MaxLaps == 2

\* The weather table holds up to MaxSamples samples.
MaxSamples == 2

----------------------------------------------------------------------------
(* Values. *)

\* A missing time (NaT) or number (NaN), and a value that is present.
NaT == [na |-> TRUE, v |-> 0]

NaN == [na |-> TRUE, v |-> 0]

Td(x) == [na |-> FALSE, v |-> x]

Num(x) == [na |-> FALSE, v |-> x]

\* A missing object value (Python's None).
None == "None"

\* How a call ended: it raised, or it returned x.
Raised == [kind |-> "raise"]

Returned(x) == [kind |-> "ok", value |-> x]

\* Every operation starts from the loaded session with nothing called yet
\* (call = NoCall): each works on its own copy of session.laps and on fresh
\* axes, and reads nothing an earlier call left behind.
NoCall == [name |-> "none"]

NotBuilt == [kind |-> "none"]

\* The elements of a finite set of integers in ascending order (the key order
\* of a sorted groupby).
RECURSIVE SortedSeq(_)
SortedSeq(S) ==
    IF S = {} THEN <<>>
    ELSE LET m == CHOOSE x \in S : \A y \in S : x <= y
         IN <<m>> \o SortedSeq(S \ {m})

----------------------------------------------------------------------------
(* new_utils.py: the leader-lap view. *)

\* laps.groupby('Driver')['LapTime'].cumsum() at row i: the running sum, in
\* row order, of the lap times of the rows of the same driver up to row i.
\* A NaT lap time is skipped by the sum and leaves NaT at its own row.
RECURSIVE GroupSum(_, _, _)
GroupSum(t, d, i) ==
    IF i = 0 THEN 0
    ELSE GroupSum(t, d, i - 1)
         + (IF t[i].Driver = d /\ ~t[i].LapTime.na THEN t[i].LapTime.v ELSE 0)

CumSum(t, i) ==
    IF t[i].LapTime.na THEN NaT ELSE Td(GroupSum(t, t[i].Driver, i))

\* laps['CumulativeTime'] = ... : the table with the column added; Index keeps
\* the row's label.
WithCumulativeTime(t) ==
    [i \in DOMAIN t |-> t[i] @@ [CumulativeTime |-> CumSum(t, i), Index |-> i]]

\* The index label of the last row holding the minimum (the arg-min scanned
\* with <= in place of <).
IdxMinLast(t, n) ==
    LET g == {i \in DOMAIN t : t[i].LapNumber = n /\ ~t[i].CumulativeTime.na}
    IN  IF g = {} THEN 0
        ELSE CHOOSE i \in g : \A j \in g :
                \/ t[i].CumulativeTime.v < t[j].CumulativeTime.v
                \/ t[i].CumulativeTime.v = t[j].CumulativeTime.v /\ i >= j

\* The index label of the row holding the maximum (min and max confused).
IdxMax(t, n) ==
    LET g == {i \in DOMAIN t : t[i].LapNumber = n /\ ~t[i].CumulativeTime.na}
    IN  IF g = {} THEN 0
        ELSE CHOOSE i \in g : \A j \in g :
                \/ t[i].CumulativeTime.v > t[j].CumulativeTime.v
                \/ t[i].CumulativeTime.v = t[j].CumulativeTime.v /\ i <= j

\* groupby('LapNumber')['CumulativeTime'].idxmin() for the group of lap number
\* n: the index label of the first row, in row order, that holds the group's
\* minimum; NaT is skipped.  0 stands for the NaN the group yields when all
\* its values are NaT.
IdxMin(t, n) ==
    LET g == {i \in DOMAIN t : t[i].LapNumber = n /\ ~t[i].CumulativeTime.na}
    IN  IF g = {} THEN 0
        ELSE CHOOSE i \in g : \A j \in g :
                \/ t[i].CumulativeTime.v < t[j].CumulativeTime.v
                \/ t[i].CumulativeTime.v = t[j].CumulativeTime.v /\ i <= j

LapNumbers(t) == {t[i].LapNumber : i \in DOMAIN t}

\* laps.loc[laps.groupby('LapNumber')['CumulativeTime'].idxmin()]: one label
\* per lap number, in ascending lap-number order, and the rows at those
\* labels.  .loc raises KeyError when a label is NaN (newer pandas raises in
\* idxmin already).
LeaderLaps(t) ==
    LET c   == WithCumulativeTime(t)
        ns  == SortedSeq(LapNumbers(t))
        idx == [k \in 1..Len(ns) |-> IdxMin(c, ns[k])]
    IN  IF \E k \in 1..Len(ns) : idx[k] = 0
        THEN Raised
        ELSE Returned([k \in 1..Len(ns) |-> c[idx[k]]])

\* leader_laps.loc[:, ["LapNumber", "TrackStatus"]].
TrackStatusColumns(r) == [LapNumber |-> r.LapNumber, TrackStatus |-> r.TrackStatus]

get_track_status_by_lap(t) ==
    LET found == LeaderLaps(t)
    IN  IF found.kind = "raise" THEN Raised
        ELSE Returned([k \in DOMAIN found.value |->
                          TrackStatusColumns(found.value[k])])

GetTrackStatusByLap ==
    /\ call = NoCall
    /\ call' = [name |-> "get_track_status_by_lap"]
    /\ leader_laps' = LeaderLaps(laps)
    /\ ret' = get_track_status_by_lap(laps)
    /\ figs' = 0
    /\ ax' = <<>>
    /\ out' = <<>>
    /\ UNCHANGED <<laps, weather>>

----------------------------------------------------------------------------
(* new_utils.py: the weather-by-lap view. *)

\* sort_values(by='Time') of a table whose Time is never NaT: ascending, rows
\* of equal Time in their previous order.
RECURSIVE InsertByTime(_, _)
InsertByTime(s, r) ==
    IF s = <<>> THEN <<r>>
    ELSE IF Head(s).Time.v <= r.Time.v
         THEN <<Head(s)>> \o InsertByTime(Tail(s), r)
         ELSE <<r>> \o s

RECURSIVE SortByTime(_)
SortByTime(t) ==
    IF t = <<>> THEN <<>>
    ELSE InsertByTime(SortByTime(SubSeq(t, 1, Len(t) - 1)), t[Len(t)])

\* merge_asof's backward match in the sorted samples w: the last row whose
\* Time is <= x (0: none).
AsofBackward(w, x) ==
    LET s == {j \in DOMAIN w : w[j].Time.v <= x}
    IN  IF s = {} THEN 0 ELSE CHOOSE j \in s : \A k \in s : k <= j

\* merge_asof's forward match: the first row whose Time is >= x (0: none).
AsofForward(w, x) ==
    LET s == {j \in DOMAIN w : w[j].Time.v >= x}
    IN  IF s = {} THEN 0 ELSE CHOOSE j \in s : \A k \in s : j <= k

\* The backward match whenever there is one (direction='backward' left in
\* place of 'nearest').
AsofBackwardFirst(w, x) ==
    IF AsofBackward(w, x) # 0 THEN AsofBackward(w, x) ELSE AsofForward(w, x)

\* direction='nearest': of the backward and the forward match the one at the
\* smaller distance, the backward one when the distances are equal.
AsofNearest(w, x) ==
    LET b == AsofBackward(w, x)
        f == AsofForward(w, x)
    IN  IF b # 0 /\ f # 0
        THEN (IF x - w[b].Time.v <= w[f].Time.v - x THEN b ELSE f)
        ELSE (IF b # 0 THEN b ELSE f)

\* One row of weather_laps: the lap number and the matched sample's readings,
\* NaN when no sample matched.
WeatherColumns(n, w, j) ==
    IF j = 0
    THEN [LapNumber |-> n, AirTemp |-> NaN, Humidity |-> NaN, Pressure |-> NaN,
          Rainfall |-> NaN, TrackTemp |-> NaN, WindDirection |-> NaN,
          WindSpeed |-> NaN]
    ELSE [LapNumber |-> n, AirTemp |-> w[j].AirTemp, Humidity |-> w[j].Humidity,
          Pressure |-> w[j].Pressure, Rainfall |-> w[j].Rainfall,
          TrackTemp |-> w[j].TrackTemp, WindDirection |-> w[j].WindDirection,
          WindSpeed |-> w[j].WindSpeed]

get_weather_data_by_lap(t, wd) ==
    LET found == LeaderLaps(t)
    IN  IF found.kind = "raise" THEN Raised
        ELSE LET sorted_laps == SortByTime(found.value)
                 weather_data == SortByTime(wd)
             IN  Returned([k \in DOMAIN sorted_laps |->
                     WeatherColumns(sorted_laps[k].LapNumber, weather_data,
                         AsofNearest(weather_data, sorted_laps[k].Time.v))])

GetWeatherDataByLap ==
    /\ call = NoCall
    /\ call' = [name |-> "get_weather_data_by_lap"]
    /\ leader_laps' = LeaderLaps(laps)
    /\ ret' = get_weather_data_by_lap(laps, weather)
    /\ figs' = 0
    /\ ax' = <<>>
    /\ out' = <<>>
    /\ UNCHANGED <<laps, weather>>

----------------------------------------------------------------------------
(* standard_plots.py: the track-status highlight overlay. *)

\* ax.axvspan(lap - 0.5, lap + 0.5, color=...).  x is kept in quarter laps,
\* so lap - 0.5 is 4 * lap - 2 and lap + 0.5 is 4 * lap + 2.
AxVSpan(lap, color) ==
    [artist |-> "axvspan", xmin |-> 4 * lap - 2, xmax |-> 4 * lap + 2,
     color |-> color]

\* track_status_df[track_status_df['TrackStatus'].isin(codes)]['LapNumber'].
LapsWithStatus(track_status_df, codes) ==
    LET hit == SelectSeq(track_status_df, LAMBDA r : r.TrackStatus \in codes)
    IN  [k \in DOMAIN hit |-> hit[k].LapNumber]

SCCodes == {"4"}

\* Code 7 (Virtual Safety Car ending) left out of the orange bands.
VSCCodesDeployedOnly == {"6"}

VSCCodes == {"6", "7"}

\* The bands of plot_track_status_highlights: the Safety Car laps in yellow,
\* then the Virtual Safety Car laps in orange.
StatusBands(track_status_df) ==
    LET sc_laps  == LapsWithStatus(track_status_df, SCCodes)
        vsc_laps == LapsWithStatus(track_status_df, VSCCodes)
    IN  [k \in DOMAIN sc_laps |-> AxVSpan(sc_laps[k], "yellow")]
        \o [k \in DOMAIN vsc_laps |-> AxVSpan(vsc_laps[k], "orange")]

PlotTrackStatusHighlights ==
    LET track_status_df == get_track_status_by_lap(laps)
    IN  /\ call = NoCall
        /\ call' = [name |-> "plot_track_status_highlights"]
        /\ leader_laps' = LeaderLaps(laps)
        /\ ret' = IF track_status_df.kind = "raise" THEN Raised ELSE Returned(None)
        /\ ax' = IF track_status_df.kind = "raise" THEN <<>>
                 ELSE StatusBands(track_status_df.value)
        /\ figs' = 0
        /\ out' = <<>>
        /\ UNCHANGED <<laps, weather>>

----------------------------------------------------------------------------
(* standard_plots.py: the race-trace renderer. *)

\* laps[laps['Driver'] == d]: the rows of driver d, in row order.
DriverLaps(t, d) == SelectSeq(t, LAMBDA r : r.Driver = d)

\* laps['Driver'].unique(): the drivers in order of first appearance.
RECURSIVE UniqueDrivers(_)
UniqueDrivers(t) ==
    IF t = <<>> THEN <<>>
    ELSE LET before == UniqueDrivers(SubSeq(t, 1, Len(t) - 1))
             d      == t[Len(t)].Driver
         IN  IF \E k \in DOMAIN before : before[k] = d THEN before
             ELSE Append(before, d)

\* A reference time or a gap is a fraction num / den of a second (den = 1
\* unless it comes from a mean), or missing.
Frac(n, d) == [na |-> FALSE, num |-> n, den |-> d]

NoFrac == [na |-> TRUE, num |-> 0, den |-> 1]

RECURSIVE SumOver(_, _)
SumOver(S, c) ==
    IF S = {} THEN 0
    ELSE LET i == CHOOSE x \in S : TRUE
         IN  c[i].CumulativeTime.v + SumOver(S \ {i}, c)

\* laps.groupby('LapNumber')['CumulativeTime'].mean(): per lap number, in
\* ascending order, the mean of the cumulative times that are not NaT.
AverageReference(c) ==
    LET ns == SortedSeq(LapNumbers(c))
        g(n) == {i \in DOMAIN c : c[i].LapNumber = n /\ ~c[i].CumulativeTime.na}
    IN  [k \in DOMAIN ns |->
            [LapNumber |-> ns[k],
             ReferenceTime |-> IF g(ns[k]) = {} THEN NoFrac
                               ELSE Frac(SumOver(g(ns[k]), c), Cardinality(g(ns[k])))]]

\* rows.set_index('LapNumber')['CumulativeTime'] as the reference series.
ReferenceOf(rows) ==
    [k \in DOMAIN rows |->
        [LapNumber |-> rows[k].LapNumber,
         ReferenceTime |-> IF rows[k].CumulativeTime.na THEN NoFrac
                           ELSE Frac(rows[k].CumulativeTime.v, 1)]]

\* The reference driver's lap times taken where the cumulative times belong.
DriverReferenceLapTime(c, d) ==
    LET rows == DriverLaps(c, d)
    IN  [k \in DOMAIN rows |->
            [LapNumber |-> rows[k].LapNumber,
             ReferenceTime |-> IF rows[k].LapTime.na THEN NoFrac
                               ELSE Frac(rows[k].LapTime.v, 1)]]

\* The reference series of an explicit driver code.
DriverReference(c, d) == ReferenceOf(DriverLaps(c, d))

\* The check for a missing reference driver left out.
ReferenceDriverMissingNever(c, d) == FALSE

\* driver_laps.empty for the reference driver.
ReferenceDriverMissing(c, d) == DriverLaps(c, d) = <<>>

\* pd.merge(left[['LapNumber', 'CumulativeTime']], reference, on='LapNumber',
\* how='inner'): every pair of a left row and a reference entry of the same
\* lap number, in the order of the left rows.
RECURSIVE MergeInner(_, _)
MergeInner(left, ref) ==
    IF left = <<>> THEN <<>>
    ELSE LET r == Head(left)
             m == SelectSeq(ref, LAMBDA e : e.LapNumber = r.LapNumber)
         IN  [k \in DOMAIN m |->
                 [LapNumber |-> r.LapNumber, CumulativeTime |-> r.CumulativeTime,
                  ReferenceTime |-> m[k].ReferenceTime]]
             \o MergeInner(Tail(left), ref)

\* (CumulativeTime - ReferenceTime).dt.total_seconds(); NaN when either is
\* missing.
Gap(cum, ref) ==
    IF cum.na \/ ref.na THEN NoFrac
    ELSE Frac(cum.v * ref.den - ref.num, ref.den)

\* ax.plot(gaps_df['LapNumber'], gaps_df['Gap'], label=driver, ...).
GapLine(c, ref, d) ==
    LET gaps_df == MergeInner(DriverLaps(c, d), ref)
    IN  [artist |-> "plot", label |-> d,
         x |-> [k \in DOMAIN gaps_df |-> gaps_df[k].LapNumber],
         y |-> [k \in DOMAIN gaps_df |->
                   Gap(gaps_df[k].CumulativeTime, gaps_df[k].ReferenceTime)]]

\* The loop over driver_abbreviations: one line per driver that has laps.
RECURSIVE GapLines(_, _, _)
GapLines(c, ref, ds) ==
    IF ds = <<>> THEN <<>>
    ELSE (IF DriverLaps(c, Head(ds)) # <<>>
          THEN <<GapLine(c, ref, Head(ds))>> ELSE <<>>)
         \o GapLines(c, ref, Tail(ds))

TraceLabels(relative_to) ==
    IF relative_to = "average"
    THEN [artist |-> "labels", title |-> <<"Race Progression Relative to Average">>,
          xlabel |-> "Lap Number", ylabel |-> <<"Time Delta to Average (s)">>]
    ELSE IF relative_to = "leader"
    THEN [artist |-> "labels", title |-> <<"Race Gaps to Leader">>,
          xlabel |-> "Lap Number", ylabel |-> <<"Gap to Leader (s)">>]
    ELSE [artist |-> "labels", title |-> <<"Race Gaps Relative to", relative_to>>,
          xlabel |-> "Lap Number", ylabel |-> <<"Gap to", relative_to, "(s)">>]

\* ax.legend(); ax.grid(True); ax.invert_yaxis().
TraceFinish ==
    << [artist |-> "legend"], [artist |-> "grid"], [artist |-> "invert_yaxis"] >>

\* The pair (fig, ax) that a renderer returns.
FigAx == "(fig, ax)"

\* plot_race_trace(session, relative_to, drivers_to_plot); drivers_to_plot =
\* <<>> stands for None and for the empty list, which line 90 treats alike:
\* every driver of the table is plotted.  The conversion of
\* all-boolean object columns (lines 55-57) touches none of Driver, LapNumber
\* and LapTime, the columns read here.
PlotRaceTrace(relative_to, drivers_to_plot) ==
    LET c == WithCumulativeTime(laps)
        found == IF relative_to = "leader" THEN LeaderLaps(laps) ELSE NotBuilt
        missing == relative_to \notin {"average", "leader"}
                      /\ ReferenceDriverMissing(c, relative_to)
        reference_times ==
            IF relative_to = "average" THEN AverageReference(c)
            ELSE IF relative_to = "leader" THEN ReferenceOf(found.value)
            ELSE DriverReference(c, relative_to)
        track_status_df == get_track_status_by_lap(laps)
        driver_abbreviations ==
            IF drivers_to_plot = <<>> THEN UniqueDrivers(c)
            ELSE drivers_to_plot
    IN  /\ call = NoCall
        /\ call' = [name |-> "plot_race_trace", relative_to |-> relative_to,
                    drivers_to_plot |-> drivers_to_plot]
        /\ UNCHANGED <<laps, weather>>
        /\ IF found.kind = "raise"
           THEN \* idxmin / .loc raised at line 69
                /\ leader_laps' = found
                /\ ret' = Raised /\ figs' = 0 /\ ax' = <<>> /\ out' = <<>>
           ELSE IF missing
           THEN \* lines 76-78
                /\ leader_laps' = NotBuilt
                /\ out' = << <<"Driver", relative_to, "not found.">> >>
                /\ ret' = Returned(None) /\ figs' = 0 /\ ax' = <<>>
           ELSE IF track_status_df.kind = "raise"
           THEN \* plot_track_status_highlights raised at line 88
                /\ leader_laps' = LeaderLaps(laps)
                /\ ret' = Raised /\ figs' = 1 /\ out' = <<>>
                /\ ax' = <<TraceLabels(relative_to)>>
           ELSE /\ leader_laps' = LeaderLaps(laps)
                /\ ret' = Returned(FigAx) /\ figs' = 1 /\ out' = <<>>
                /\ ax' = <<TraceLabels(relative_to)>>
                         \o StatusBands(track_status_df.value)
                         \o GapLines(c, reference_times, driver_abbreviations)
                         \o TraceFinish

----------------------------------------------------------------------------
(* standard_plots.py: the tyre-strategy renderer. *)

\* An optional drivers_to_plot argument: left at None, or a list.
NoDrivers == [given |-> FALSE, list |-> <<>>]

Given(ds) == [given |-> TRUE, list |-> ds]

\* [session.get_driver(driver_id)['Abbreviation'] for driver_id in
\* session.drivers]: the session's drivers, here those of the lap table.
SessionDrivers(t) == UniqueDrivers(t)

DriversToPlot(t, drivers_to_plot) ==
    IF drivers_to_plot.given THEN drivers_to_plot.list ELSE SessionDrivers(t)

\* The compound names of the modelled sessions in ascending (alphabetical)
\* order, the order in which a sorted groupby lists them.
CompoundOrder == <<"HYPERSOFT", "MEDIUM", "SOFT">>

\* The names ff1.plotting.COMPOUND_COLORS has a colour for.
KnownCompounds ==
    {"SOFT", "MEDIUM", "HARD", "INTERMEDIATE", "WET", "UNKNOWN", "TEST-UNKNOWN"}

\* ff1.plotting.COMPOUND_COLORS.get(compound, '#FFFFFF').
CompoundColor(compound) ==
    IF compound \in KnownCompounds THEN <<"COMPOUND_COLORS", compound>>
    ELSE <<"#FFFFFF">>

\* groupby(['Driver', 'Stint', 'Compound'])['LapNumber'].agg(['min', 'max'])
\* for driver d: one row per (Stint, Compound) group, in ascending key order.
\* A row whose Compound is missing belongs to no group (groupby drops missing
\* keys).
StintLaps(t, d, st, cp) ==
    {t[i].LapNumber : i \in {j \in DOMAIN t :
        t[j].Driver = d /\ t[j].Stint = st /\ t[j].Compound = cp}}

MinOf(S) == CHOOSE x \in S : \A y \in S : x <= y

MaxOf(S) == CHOOSE x \in S : \A y \in S : x >= y

RECURSIVE StintsOfNumbers(_, _, _)
StintsOfNumbers(t, d, sts) ==
    IF sts = <<>> THEN <<>>
    ELSE LET st  == Head(sts)
             cps == SelectSeq(CompoundOrder, LAMBDA cp : StintLaps(t, d, st, cp) # {})
         IN  [k \in DOMAIN cps |->
                 [Driver |-> d, Stint |-> st, Compound |-> cps[k],
                  min |-> MinOf(StintLaps(t, d, st, cps[k])),
                  max |-> MaxOf(StintLaps(t, d, st, cps[k]))]]
             \o StintsOfNumbers(t, d, Tail(sts))

DriverStints(t, d) ==
    StintsOfNumbers(t, d,
        SortedSeq({t[i].Stint : i \in {j \in DOMAIN t :
            t[j].Driver = d /\ t[j].Compound # None}}))

\* ax.barh(y=driver, width=end - start + 1, left=start, color=...) and
\* ax.text(x=start + (end - start + 1) / 2, y=driver, s=compound); the text's
\* x is kept in half laps.
StintBar(s) ==
    << [artist |-> "barh", y |-> s.Driver, left |-> s.min,
        width |-> s.max - s.min + 1, color |-> CompoundColor(s.Compound)],
       [artist |-> "text", y |-> s.Driver, s |-> s.Compound,
        x2 |-> 2 * s.min + (s.max - s.min + 1)] >>

RECURSIVE StintBars(_)
StintBars(stints) ==
    IF stints = <<>> THEN <<>>
    ELSE StintBar(Head(stints)) \o StintBars(Tail(stints))

RECURSIVE StrategyBars(_, _)
StrategyBars(t, ds) ==
    IF ds = <<>> THEN <<>>
    ELSE StintBars(DriverStints(t, Head(ds))) \o StrategyBars(t, Tail(ds))

\* plot_tyre_strategy(session, drivers_to_plot).
PlotTyreStrategy(drivers_to_plot) ==
    /\ call = NoCall
    /\ call' = [name |-> "plot_tyre_strategy", drivers_to_plot |-> drivers_to_plot]
    /\ leader_laps' = NotBuilt
    /\ figs' = 1
    /\ ax' = StrategyBars(laps, DriversToPlot(laps, drivers_to_plot))
             \o << [artist |-> "labels", title |-> <<"Tyre Strategy">>,
                    xlabel |-> "Lap Number", ylabel |-> <<"Driver">>],
                   [artist |-> "invert_yaxis"], [artist |-> "legend"] >>
    /\ ret' = Returned(FigAx)
    /\ out' = <<>>
    /\ UNCHANGED <<laps, weather>>

----------------------------------------------------------------------------
(* standard_plots.py: the lap-time renderer. *)

\* The first row dropped, whatever its lap number (iloc[1:] for the filter).
ExcludeFirstRow(rows) == IF rows = <<>> THEN <<>> ELSE Tail(rows)

\* driver_laps[driver_laps['LapNumber'] > 1].
ExcludeFirstLap(rows) == SelectSeq(rows, LAMBDA r : r.LapNumber > 1)

\* driver_laps[~driver_laps['TrackStatus'].isin(['4', '6', '7'])].
ExcludeSafetyCarLaps(rows) ==
    SelectSeq(rows, LAMBDA r : r.TrackStatus \notin {"4", "6", "7"})

\* driver_laps.loc[PitInTime.isnull() & PitOutTime.isnull()].
ExcludePitLaps(rows) ==
    SelectSeq(rows, LAMBDA r : r.PitInTime.na /\ r.PitOutTime.na)

\* The three filters in the order of lines 278-283, each if its flag is set.
FilteredLaps(rows, ignore_pit_laps, ignore_safety_car_laps, ignore_first_lap) ==
    LET a == IF ignore_first_lap THEN ExcludeFirstLap(rows) ELSE rows
        b == IF ignore_safety_car_laps THEN ExcludeSafetyCarLaps(a) ELSE a
    IN  IF ignore_pit_laps THEN ExcludePitLaps(b) ELSE b

\* ax.plot(driver_laps['LapNumber'], driver_laps['LapTime'].dt.total_seconds(),
\* label=driver, ...).
LapTimeLine(d, rows) ==
    [artist |-> "plot", label |-> d,
     x |-> [k \in DOMAIN rows |-> rows[k].LapNumber],
     y |-> [k \in DOMAIN rows |-> rows[k].LapTime]]

\* plot_lap_times(session, drivers_to_plot, ignore_pit_laps,
\* ignore_safety_car_laps, ignore_first_lap); laps.pick_drivers(driver) is the
\* rows of that driver.
PlotLapTimes(drivers_to_plot, ignore_pit_laps, ignore_safety_car_laps, ignore_first_lap) ==
    LET ds == DriversToPlot(laps, drivers_to_plot)
    IN  /\ call = NoCall
        /\ call' = [name |-> "plot_lap_times", drivers_to_plot |-> drivers_to_plot,
                    ignore_pit_laps |-> ignore_pit_laps,
                    ignore_safety_car_laps |-> ignore_safety_car_laps,
                    ignore_first_lap |-> ignore_first_lap]
        /\ leader_laps' = NotBuilt
        /\ figs' = 1
        /\ ax' = [k \in DOMAIN ds |->
                     LapTimeLine(ds[k],
                         FilteredLaps(DriverLaps(laps, ds[k]), ignore_pit_laps,
                                      ignore_safety_car_laps, ignore_first_lap))]
                 \o << [artist |-> "labels", title |-> <<"Lap Times">>,
                        xlabel |-> "Lap Number", ylabel |-> <<"Lap Time (s)">>],
                       [artist |-> "legend"], [artist |-> "grid"] >>
        /\ ret' = Returned(FigAx)
        /\ out' = <<>>
        /\ UNCHANGED <<laps, weather>>

----------------------------------------------------------------------------
(* The sessions the model runs on. *)

LapRow(d, n, lt, tm, ts, st, cp, pin, pout) ==
    [Driver |-> d, LapNumber |-> n, LapTime |-> lt, Time |-> tm,
     TrackStatus |-> ts, Stint |-> st, Compound |-> cp,
     PitInTime |-> pin, PitOutTime |-> pout]

\* A plain lap: green flag, first stint, no pit stop.
PlainRow(d, n, lt) == LapRow(d, n, lt, Td(n), "1", 1, "SOFT", NaT, NaT)

\* Driver A runs laps 1..MaxLaps and driver B laps 1..nB; the table lists A's
\* laps, then B's, each in lap order.
RowDriver(i) == IF i <= MaxLaps THEN "A" ELSE "B"

RowLap(i) == IF i <= MaxLaps THEN i ELSE i - MaxLaps

LapCounts == 1..MaxLaps

\* The documented example session: A with lap times 90, 91, 89 and B with
\* 92, 88, 90.
ExampleLaps ==
    << PlainRow("A", 1, Td(90)), PlainRow("A", 2, Td(91)), PlainRow("A", 3, Td(89)),
       PlainRow("B", 1, Td(92)), PlainRow("B", 2, Td(88)), PlainRow("B", 3, Td(90)) >>

\* One weather sample, taken at time tm; AirTemp tells the samples apart.
WeatherRow(tm, id) ==
    [Time |-> Td(tm), AirTemp |-> Num(20 + id), Humidity |-> Num(50),
     Pressure |-> Num(1000), Rainfall |-> Num(0), TrackTemp |-> Num(30),
     WindDirection |-> Num(180), WindSpeed |-> Num(2)]

ExampleWeather == << WeatherRow(3, 1), WeatherRow(1, 2) >>

\* No call has been made yet.
Idle ==
    /\ call = NoCall
    /\ ret = Returned(None)
    /\ leader_laps = NotBuilt
    /\ figs = 0
    /\ ax = <<>>
    /\ out = <<>>

\* Sessions for the leader-lap view: every lap time is 1 s, 2 s or missing,
\* every lap is green ("1") or under the Safety Car ("4").
LeaderLapTimes == {NaT, Td(1), Td(2)}

LeaderStatuses == {"1", "4"}

LeaderTable(nB, lt, ts) ==
    [i \in 1..(MaxLaps + nB) |->
        LapRow(RowDriver(i), RowLap(i), lt[i], Td(RowLap(i)), ts[i],
               1, "SOFT", NaT, NaT)]

RowsOfA == 1..MaxLaps

RowsOfB(nB) == (MaxLaps + 1)..(MaxLaps + nB)

InitLeader ==
    /\ \/ laps = ExampleLaps
       \/ \E nB \in LapCounts :
            \E lt \in [1..(MaxLaps + nB) -> LeaderLapTimes] :
              \E ts \in [1..(MaxLaps + nB) -> LeaderStatuses] :
                laps = LeaderTable(nB, lt, ts)
    /\ weather = ExampleWeather
    /\ Idle

NextLeader == GetTrackStatusByLap \/ GetWeatherDataByLap

SpecLeader == InitLeader /\ [][NextLeader]_vars

\* Sessions for the track-status overlay: A's laps take 2 s or have no time,
\* B's take 1 s or 3 s; the status codes are split over the two drivers so
\* that the leader's code and the other driver's differ.
HighlightLapTimesA == {Td(2), NaT}

HighlightLapTimesB == {Td(1), Td(3)}

HighlightStatusesA == {"1", "4", "6"}

HighlightStatusesB == {"4", "7", "67"}

InitHighlights ==
    /\ \E nB \in LapCounts :
         \E ltA \in [RowsOfA -> HighlightLapTimesA], ltB \in [RowsOfB(nB) -> HighlightLapTimesB] :
           \E tsA \in [RowsOfA -> HighlightStatusesA], tsB \in [RowsOfB(nB) -> HighlightStatusesB] :
             laps = LeaderTable(nB, ltA @@ ltB, tsA @@ tsB)
    /\ weather = ExampleWeather
    /\ Idle

NextHighlights == PlotTrackStatusHighlights

SpecHighlights == InitHighlights /\ [][NextHighlights]_vars

\* Sessions for the race trace: lap times as for the leader-lap view; A's laps
\* are green and B's under the Safety Car.
TraceStatus(i) == IF RowDriver(i) = "A" THEN "1" ELSE "4"

\* The reference modes and driver subsets plot_race_trace is called with; "C"
\* is a driver code with no lap in the session.
ReferenceModes == {"average", "leader", "A", "B", "C"}

DriverSubsets == {<<>>, <<"A">>, <<"B", "A">>, <<"C">>}

InitTrace ==
    /\ \E nB \in LapCounts :
         \E lt \in [1..(MaxLaps + nB) -> LeaderLapTimes] :
           laps = LeaderTable(nB, lt, [i \in 1..(MaxLaps + nB) |-> TraceStatus(i)])
    /\ weather = ExampleWeather
    /\ Idle

NextTrace ==
    \E relative_to \in ReferenceModes, drivers_to_plot \in DriverSubsets :
        PlotRaceTrace(relative_to, drivers_to_plot)

SpecTrace == InitTrace /\ [][NextTrace]_vars

\* Sessions for the weather view: A's laps take 2 s, B's 1 s or 3 s; a lap
\* ends at time 2 or 5; up to MaxSamples weather samples, in any row order,
\* taken at times 1, 3, 5 or 6.
LapEndTimes == {Td(2), Td(5)}

SampleTimes == {1, 3, 5, 6}

WeatherLapTable(nB, lt, tm) ==
    [i \in 1..(MaxLaps + nB) |->
        LapRow(RowDriver(i), RowLap(i), lt[i], tm[i], "1", 1, "SOFT", NaT, NaT)]

InitWeather ==
    /\ \E nB \in LapCounts :
         \E ltB \in [RowsOfB(nB) -> HighlightLapTimesB] :
           \E tm \in [1..(MaxLaps + nB) -> LapEndTimes] :
             laps = WeatherLapTable(nB, [i \in RowsOfA |-> Td(2)] @@ ltB, tm)
    /\ \E n \in 0..MaxSamples :
         \E st \in [1..n -> SampleTimes] :
           weather = [s \in 1..n |-> WeatherRow(st[s], s)]
    /\ Idle

NextWeather == GetWeatherDataByLap

SpecWeather == InitWeather /\ [][NextWeather]_vars

\* Sessions for the tyre strategy: a driver starts in stint 1 and each later
\* lap either stays in the stint or begins the next one; the laps of a stint
\* are on one compound, SOFT or HYPERSOFT, except that a lap's compound may
\* be missing.
Compounds == {"SOFT", "HYPERSOFT", None}

RECURSIVE StintAt(_, _)
StintAt(pit, i) ==
    IF RowLap(i) = 1 THEN 1
    ELSE StintAt(pit, i - 1) + (IF pit[i] THEN 1 ELSE 0)

TyreTable(nB, pit, cp) ==
    [i \in 1..(MaxLaps + nB) |->
        LapRow(RowDriver(i), RowLap(i), Td(2), Td(RowLap(i)), "1",
               StintAt(pit, i), cp[i], NaT, NaT)]

OneCompoundPerStint(t) ==
    \A i, j \in DOMAIN t :
        (t[i].Driver = t[j].Driver /\ t[i].Stint = t[j].Stint
            /\ t[i].Compound # None /\ t[j].Compound # None)
           => t[i].Compound = t[j].Compound

TyreDriverSubsets == {NoDrivers, Given(<<"B", "A">>), Given(<<"A">>)}

InitTyre ==
    /\ \E nB \in LapCounts :
         \E pit \in [1..(MaxLaps + nB) -> BOOLEAN], cp \in [1..(MaxLaps + nB) -> Compounds] :
           /\ \A i \in 1..(MaxLaps + nB) : RowLap(i) = 1 => ~pit[i]
           /\ OneCompoundPerStint(TyreTable(nB, pit, cp))
           /\ laps = TyreTable(nB, pit, cp)
    /\ weather = ExampleWeather
    /\ Idle

NextTyre == \E drivers_to_plot \in TyreDriverSubsets : PlotTyreStrategy(drivers_to_plot)

SpecTyre == InitTyre /\ [][NextTyre]_vars

\* Sessions for the lap times: each lap of A is green, under the Safety Car
\* or under the ending Virtual Safety Car, and has no pit stop, a pit entry
\* or a pit exit; B's laps are plain.
LapTimeStatuses == {"1", "4", "7"}

PitStops == {<<NaT, NaT>>, <<Td(1), NaT>>, <<NaT, Td(1)>>}

LapTimeTable(nB, ts, ps) ==
    [i \in 1..(MaxLaps + nB) |->
        IF i \in RowsOfA
        THEN LapRow("A", RowLap(i), Td(RowLap(i) + 1), Td(RowLap(i)), ts[i],
                    1, "SOFT", ps[i][1], ps[i][2])
        ELSE PlainRow("B", RowLap(i), Td(2))]

InitLapTimes ==
    /\ \E nB \in LapCounts :
         \E ts \in [RowsOfA -> LapTimeStatuses], ps \in [RowsOfA -> PitStops] :
           laps = LapTimeTable(nB, ts, ps)
    /\ weather = ExampleWeather
    /\ Idle

NextLapTimes ==
    \E drivers_to_plot \in {NoDrivers, Given(<<"A">>)} :
      \E ignore_pit_laps \in BOOLEAN, ignore_safety_car_laps \in BOOLEAN,
         ignore_first_lap \in BOOLEAN :
        PlotLapTimes(drivers_to_plot, ignore_pit_laps, ignore_safety_car_laps,
                     ignore_first_lap)

SpecLapTimes == InitLapTimes /\ [][NextLapTimes]_vars

----------------------------------------------------------------------------
(* The claims. *)

\* The last call was one of the two builders of the leader-lap view.
LeaderViewCalled ==
    call.name \in {"get_track_status_by_lap", "get_weather_data_by_lap"}

\* Row i of the lap table has a cumulative time, and no row of the same lap
\* number has a smaller one.
HasMinCumulativeTime(i) ==
    /\ ~CumSum(laps, i).na
    /\ \A j \in DOMAIN laps :
         (laps[j].LapNumber = laps[i].LapNumber /\ ~CumSum(laps, j).na)
            => CumSum(laps, i).v <= CumSum(laps, j).v

\* Row i is the leader's row of its lap number: the first row, in the table's
\* order, among those with the minimum cumulative time.
IsLeaderRow(i) ==
    /\ HasMinCumulativeTime(i)
    /\ \A j \in DOMAIN laps :
         (laps[j].LapNumber = laps[i].LapNumber /\ HasMinCumulativeTime(j)) => i <= j

\* C1: for every lap table, the leader-lap view built by
\* get_track_status_by_lap / get_weather_data_by_lap has exactly one row for
\* each distinct lap number of the table, and that row's cumulative time is
\* <= the cumulative time of every other row with the same lap number.
C1_OneLeaderRowPerLapNumber ==
    LeaderViewCalled =>
        /\ leader_laps.kind = "ok"
        /\ \A n \in LapNumbers(laps) :
             Cardinality({k \in DOMAIN leader_laps.value :
                             leader_laps.value[k].LapNumber = n}) = 1
        /\ \A k \in DOMAIN leader_laps.value :
             /\ leader_laps.value[k].LapNumber \in LapNumbers(laps)
             /\ \A j \in DOMAIN laps :
                  (laps[j].LapNumber = leader_laps.value[k].LapNumber
                      /\ ~CumSum(laps, j).na)
                     => /\ ~leader_laps.value[k].CumulativeTime.na
                        /\ leader_laps.value[k].CumulativeTime.v <= CumSum(laps, j).v

\* C2: the output of get_track_status_by_lap has exactly one (lap number,
\* status code) pair per lap number present in the session, and each pair's
\* status code is the TrackStatus of the leader's row at that lap number.
C2_StatusOfLeaderPerLapNumber ==
    call.name = "get_track_status_by_lap" =>
        /\ ret.kind = "ok"
        /\ \A n \in LapNumbers(laps) :
             Cardinality({k \in DOMAIN ret.value : ret.value[k].LapNumber = n}) = 1
        /\ \A k \in DOMAIN ret.value :
             \E i \in DOMAIN laps :
                /\ laps[i].LapNumber = ret.value[k].LapNumber
                /\ IsLeaderRow(i)
                /\ ret.value[k].TrackStatus = laps[i].TrackStatus

\* C9: when several rows of a lap number hold the same minimum cumulative
\* time, the leader-lap view takes the one that comes first in the table; in
\* the example (A: 90, 91, 89; B: 92, 88, 90) the leaders are A, B, A.
C9_TieTakesFirstRow ==
    (LeaderViewCalled /\ leader_laps.kind = "ok") =>
        /\ \A k \in DOMAIN leader_laps.value : \A j \in DOMAIN laps :
             (/\ laps[j].LapNumber = leader_laps.value[k].LapNumber
              /\ ~CumSum(laps, j).na
              /\ CumSum(laps, j).v = leader_laps.value[k].CumulativeTime.v)
                => leader_laps.value[k].Index <= j
        /\ laps = ExampleLaps =>
             [k \in DOMAIN leader_laps.value |-> leader_laps.value[k].Driver]
                = <<"A", "B", "A">>

\* The example's view is built, and its lap 3 is the tie at 270 s.
C9_Witness ==
    /\ laps = ExampleLaps
    /\ call.name = "get_track_status_by_lap"
    /\ leader_laps.kind = "ok"
    /\ CumSum(laps, 3).v = 270 /\ CumSum(laps, 6).v = 270
    /\ leader_laps.value[3].Index = 3

\* The bands drawn on the axes.
Bands == SelectSeq(ax, LAMBDA a : a.artist = "axvspan")

\* The lap number a band is centred on (x in quarter laps).
BandCentre(b) == (b.xmin + b.xmax) \div 8

\* Every Safety Car lap of the leader-lap view has its yellow band and every
\* Virtual Safety Car lap its orange band, each centred on the lap number and
\* width quarter laps wide; there is no other band, and no lap number has two.
BandsFollowLeaderStatus(width) ==
    IF leader_laps.kind # "ok" THEN Bands = <<>>
    ELSE
      /\ \A k \in DOMAIN leader_laps.value :
           LET n == leader_laps.value[k].LapNumber
               code == leader_laps.value[k].TrackStatus
               on_n == {b \in DOMAIN Bands : BandCentre(Bands[b]) = n}
           IN  /\ Cardinality(on_n) = (IF code \in {"4", "6", "7"} THEN 1 ELSE 0)
               /\ \A b \in on_n :
                    /\ Bands[b].color = (IF code = "4" THEN "yellow" ELSE "orange")
                    /\ Bands[b].xmin + Bands[b].xmax = 8 * n
                    /\ Bands[b].xmax - Bands[b].xmin = width
      /\ \A b \in DOMAIN Bands :
           \E k \in DOMAIN leader_laps.value :
              leader_laps.value[k].LapNumber = BandCentre(Bands[b])

\* C10, as amended: plot_track_status_highlights draws one band from
\* lap - 0.5 to lap + 0.5 (one lap wide, centred on the lap number) on each
\* lap number whose leader track-status code is "4" (yellow) or "6" / "7"
\* (orange), no band on any other lap number, at most one band per lap number.
C10_OneLapWideBands ==
    call.name = "plot_track_status_highlights" => BandsFollowLeaderStatus(4)

\* C10, as stated: the bands are half a lap wide.
C10_HalfLapWideBands ==
    call.name = "plot_track_status_highlights" => BandsFollowLeaderStatus(2)

\* The overlay drew a yellow and an orange band.
C10_Witness ==
    /\ call.name = "plot_track_status_highlights"
    /\ ret.kind = "ok"
    /\ \E a, b \in DOMAIN Bands : Bands[a].color = "yellow" /\ Bands[b].color = "orange"

\* The lines drawn on the axes.
Lines == SelectSeq(ax, LAMBDA a : a.artist = "plot")

ZeroGap == [na |-> FALSE, num |-> 0, den |-> 1]

TraceDrawn(mode) ==
    /\ call.name = "plot_race_trace"
    /\ call.relative_to = mode
    /\ ret.kind = "ok"
    /\ ret.value = FigAx

\* C4: with relative_to = 'leader', at every lap number the gap computed for
\* the row of the driver with the minimum cumulative time is exactly zero.
C4_LeaderGapIsZero ==
    TraceDrawn("leader") =>
        \A l \in DOMAIN Lines : \A i \in DOMAIN laps :
            (laps[i].Driver = Lines[l].label /\ HasMinCumulativeTime(i))
               => /\ \E p \in DOMAIN Lines[l].x : Lines[l].x[p] = laps[i].LapNumber
                  /\ \A p \in DOMAIN Lines[l].x :
                       Lines[l].x[p] = laps[i].LapNumber => Lines[l].y[p] = ZeroGap

\* A trace relative to the leader in which B leads a lap and A is behind.
C4_Witness ==
    /\ TraceDrawn("leader")
    /\ \E l \in DOMAIN Lines : \E i \in DOMAIN laps :
         /\ Lines[l].label = "B" /\ laps[i].Driver = "B" /\ IsLeaderRow(i)
         /\ \E p \in DOMAIN Lines[l].x :
              Lines[l].x[p] = laps[i].LapNumber /\ Lines[l].y[p] = ZeroGap
    /\ \E l \in DOMAIN Lines : \E p \in DOMAIN Lines[l].y :
         Lines[l].label = "A" /\ ~Lines[l].y[p].na /\ Lines[l].y[p].num > 0

\* C5: with relative_to the code of a driver of the session, that driver's own
\* gap is zero at every lap number for which it has a row with a cumulative
\* time.
C5_ReferenceDriverGapIsZero ==
    \A d \in {"A", "B"} :
        TraceDrawn(d) =>
            \A l \in DOMAIN Lines :
                Lines[l].label = d =>
                    \A i \in DOMAIN laps :
                        (laps[i].Driver = d /\ ~CumSum(laps, i).na)
                           => /\ \E p \in DOMAIN Lines[l].x : Lines[l].x[p] = laps[i].LapNumber
                              /\ \A p \in DOMAIN Lines[l].x :
                                   Lines[l].x[p] = laps[i].LapNumber
                                      => Lines[l].y[p] = ZeroGap

\* A trace relative to B with B's own line drawn over two laps with times,
\* and A's line off zero.
C5_Witness ==
    /\ TraceDrawn("B")
    /\ \E l \in DOMAIN Lines :
         /\ Lines[l].label = "B"
         /\ Cardinality({p \in DOMAIN Lines[l].y : Lines[l].y[p] = ZeroGap}) >= 2
    /\ \E l \in DOMAIN Lines : \E p \in DOMAIN Lines[l].y :
         Lines[l].label = "A" /\ ~Lines[l].y[p].na /\ Lines[l].y[p].num # 0

\* The call asked for a reference driver that has no lap row.
ReferenceDriverAbsent ==
    /\ call.name = "plot_race_trace"
    /\ call.relative_to \notin {"average", "leader"}
    /\ \A i \in DOMAIN laps : laps[i].Driver # call.relative_to

\* C8: when relative_to names a driver with no lap row (and is neither
\* 'average' nor 'leader'), plot_race_trace prints that the driver was not
\* found, raises nothing and returns None: no figure is created and nothing
\* is drawn.
C8_MissingReferenceDriver ==
    ReferenceDriverAbsent =>
        /\ out = << <<"Driver", call.relative_to, "not found.">> >>
        /\ ret.kind = "ok"
        /\ ret.value = None
        /\ ret.value # FigAx
        /\ figs = 0
        /\ ax = <<>>

\* plot_race_trace was called relative to the absent driver "C" on a session
\* in which a lap number has no lap time at all.
C8_Witness ==
    /\ ReferenceDriverAbsent
    /\ call.relative_to = "C"
    /\ LeaderLaps(laps).kind = "raise"
    /\ ret.kind = "ok"

\* The distance between two times.
AbsDiff(a, b) == IF a >= b THEN a - b ELSE b - a

\* C3: in the output of get_weather_data_by_lap every lap number carries the
\* readings of a weather sample whose timestamp is at the smallest absolute
\* distance, among all samples, from the leader's timestamp of that lap.
C3_NearestWeatherSample ==
    (call.name = "get_weather_data_by_lap" /\ ret.kind = "ok") =>
        /\ {ret.value[k].LapNumber : k \in DOMAIN ret.value} = LapNumbers(laps)
        /\ \A k \in DOMAIN ret.value : \A j \in DOMAIN leader_laps.value :
             leader_laps.value[j].LapNumber = ret.value[k].LapNumber =>
                IF weather = <<>> THEN ret.value[k].AirTemp.na
                ELSE \E s \in DOMAIN weather :
                        /\ ret.value[k] = WeatherColumns(ret.value[k].LapNumber, weather, s)
                        /\ \A o \in DOMAIN weather :
                             AbsDiff(weather[s].Time.v, leader_laps.value[j].Time.v)
                                <= AbsDiff(weather[o].Time.v, leader_laps.value[j].Time.v)

\* A lap got the sample taken after it although an earlier sample exists.
C3_Witness ==
    /\ call.name = "get_weather_data_by_lap"
    /\ ret.kind = "ok"
    /\ \E k \in DOMAIN ret.value : \E j \in DOMAIN leader_laps.value :
       \E s, o \in DOMAIN weather :
         /\ leader_laps.value[j].LapNumber = ret.value[k].LapNumber
         /\ ret.value[k].AirTemp = weather[s].AirTemp
         /\ weather[s].Time.v > leader_laps.value[j].Time.v
         /\ weather[o].Time.v < leader_laps.value[j].Time.v

\* The bars drawn for driver d, and the lap numbers a bar spans.
BarsOf(d) == SelectSeq(ax, LAMBDA a : a.artist = "barh" /\ a.y = d)

Span(b) == b.left..(b.left + b.width - 1)

\* C6: for every driver plotted by plot_tyre_strategy the [min, max] spans of
\* the driver's stints partition the driver's laps: no two spans share a lap
\* number, and together they cover exactly the lap numbers the driver
\* completed.
C6_StintSpansPartitionLaps ==
    call.name = "plot_tyre_strategy" =>
        \A d \in {"A", "B"} :
            (\E k \in DOMAIN DriversToPlot(laps, call.drivers_to_plot) :
                 DriversToPlot(laps, call.drivers_to_plot)[k] = d)
            => /\ \A a, b \in DOMAIN BarsOf(d) :
                    a # b => Span(BarsOf(d)[a]) \cap Span(BarsOf(d)[b]) = {}
               /\ UNION {Span(BarsOf(d)[a]) : a \in DOMAIN BarsOf(d)}
                     = {laps[i].LapNumber : i \in {j \in DOMAIN laps : laps[j].Driver = d}}

\* The filters of a call that are switched on.
EnabledFilters ==
    (IF call.ignore_first_lap THEN {"first"} ELSE {})
    \cup (IF call.ignore_safety_car_laps THEN {"safety_car"} ELSE {})
    \cup (IF call.ignore_pit_laps THEN {"pit"} ELSE {})

\* Every order in which the filters of F can be applied.
Orders(F) ==
    {o \in [1..Cardinality(F) -> F] : \A i, j \in DOMAIN o : o[i] = o[j] => i = j}

ApplyFilter(f, rows) ==
    IF f = "first" THEN ExcludeFirstLap(rows)
    ELSE IF f = "safety_car" THEN ExcludeSafetyCarLaps(rows)
    ELSE ExcludePitLaps(rows)

RECURSIVE ApplyInOrder(_, _)
ApplyInOrder(o, rows) ==
    IF o = <<>> THEN rows ELSE ApplyInOrder(Tail(o), ApplyFilter(Head(o), rows))

\* C7: the three filters of plot_lap_times commute: for every driver plotted
\* and every subset of filters switched on, the laps the call plots are the
\* laps left by the switched-on filters applied in any order; 'exclude first
\* lap' then 'exclude pit laps' leaves the same laps as the reverse order.
C7_FiltersCommute ==
    call.name = "plot_lap_times" =>
        \A l \in DOMAIN Lines :
            LET rows == DriverLaps(laps, Lines[l].label)
            IN  /\ \A o \in Orders(EnabledFilters) :
                     Lines[l] = LapTimeLine(Lines[l].label, ApplyInOrder(o, rows))
                /\ ApplyInOrder(<<"first", "pit">>, rows)
                     = ApplyInOrder(<<"pit", "first">>, rows)

\* All three filters were on, A's first lap was a pit lap, and each filter
\* removed a lap of A that the others would have kept.
C7_Witness ==
    /\ call.name = "plot_lap_times"
    /\ call.ignore_pit_laps /\ call.ignore_safety_car_laps /\ call.ignore_first_lap
    /\ \E i \in DOMAIN laps :
         laps[i].Driver = "A" /\ laps[i].LapNumber = 1 /\ ~laps[i].PitOutTime.na
    /\ \E i \in DOMAIN laps :
         laps[i].Driver = "A" /\ laps[i].LapNumber > 1 /\ laps[i].TrackStatus = "4"
    /\ \E l \in DOMAIN Lines : Lines[l].label = "A" /\ Len(Lines[l].x) < MaxLaps

====
